---- MODULE Spec2Model ----
(***************************************************************************)
(* BudgetBud (src/budgetbudd.py): the in-memory ledger of DataManager, its *)
(* JSON persistence, and the form handlers of BudgetBuddy that feed it.    *)
(*                                                                         *)
(* Text that the program parses (amount text, date text, the decimal       *)
(* strings of the file) is a sequence of one-character strings, so that    *)
(* Decimal(text), str(Decimal) and strptime are computed, not assumed.     *)
(***************************************************************************)
EXTENDS Integers, Sequences, FiniteSets, TLC

VARIABLES
    transactions,   \* DataManager.transactions: sequence of Transaction
    goals,          \* DataManager.goals: sequence of Goal
    file,           \* what records.json holds on disk
    phase,          \* "new" (fields set, load() not yet run), "ready", "crashed"
    last,           \* the last call made and how it ended
    written,        \* TRUE once save() has written the file in this process
    fresh           \* the ledger a second DataManager read from the file

vars == <<transactions, goals, file, phase, last, written, fresh>>

---------------------------------------------------------------------------
(* Bounds of the model. *)

MaxTxns == 2
MaxGoals == 1
MaxCodecLen == 1

---------------------------------------------------------------------------
(* Characters and digit strings. *)

CATEGORIES == <<"Food", "Rent", "Entertainment", "Transport",
                "Utilities", "Savings", "Other">>

CategorySet == {CATEGORIES[i] : i \in 1..Len(CATEGORIES)}

DigitChars == <<"0", "1", "2", "3", "4", "5", "6", "7", "8", "9">>

IsDigit(c) == \E i \in 1..10 : DigitChars[i] = c

DigitVal(c) == (CHOOSE i \in 1..10 : DigitChars[i] = c) - 1

AllDigits(s) == \A i \in 1..Len(s) : IsDigit(s[i])

RECURSIVE DigitsVal(_)
DigitsVal(s) ==
    IF s = <<>> THEN 0
    ELSE DigitsVal(SubSeq(s, 1, Len(s) - 1)) * 10 + DigitVal(s[Len(s)])

RECURSIVE Digits(_)
Digits(n) ==
    IF n < 10 THEN <<DigitChars[n + 1]>>
    ELSE Digits(n \div 10) \o <<DigitChars[(n % 10) + 1]>>

RECURSIVE Pow10(_)
Pow10(k) == IF k <= 0 THEN 1 ELSE 10 * Pow10(k - 1)

RECURSIVE Zeros(_)
Zeros(k) == IF k <= 0 THEN <<>> ELSE <<"0">> \o Zeros(k - 1)

\* Position of the first c in s, 0 when there is none.
Find(s, c) ==
    IF \E i \in 1..Len(s) : s[i] = c
    THEN CHOOSE i \in 1..Len(s) : s[i] = c /\ \A j \in 1..(i - 1) : s[j] # c
    ELSE 0

Lower(c) ==
    CASE c = "E" -> "e" [] c = "I" -> "i" [] c = "N" -> "n" [] c = "F" -> "f"
      [] c = "T" -> "t" [] c = "Y" -> "y" [] c = "A" -> "a" [] c = "S" -> "s"
      [] OTHER -> c

LowerSeq(s) == [i \in 1..Len(s) |-> Lower(s[i])]

RECURSIVE Strip(_)
Strip(s) ==
    IF s = <<>> THEN s
    ELSE IF s[1] = " " THEN Strip(Tail(s))
    ELSE IF s[Len(s)] = " " THEN Strip(SubSeq(s, 1, Len(s) - 1))
    ELSE s

---------------------------------------------------------------------------
(* decimal.Decimal: sign, coefficient, exponent, or a special value.       *)
(* sp is "fin", "Inf", "NaN" or "sNaN".                                    *)

Dec(sign, coef, exp) == [sp |-> "fin", sign |-> sign, coef |-> coef, exp |-> exp]

Special(sp, sign) == [sp |-> sp, sign |-> sign, coef |-> 0, exp |-> 0]

DecZero == Dec(0, 0, 0)

\* Decimal(text) for a str: the parser of the decimal module. ok = FALSE is
\* decimal.InvalidOperation.
ParseFinite(sign, body) ==
    LET e     == Find(body, "e")
        mant  == IF e = 0 THEN body ELSE SubSeq(body, 1, e - 1)
        etxt  == IF e = 0 THEN <<>> ELSE SubSeq(body, e + 1, Len(body))
        esign == IF etxt # <<>> /\ etxt[1] \in {"+", "-"} THEN etxt[1] ELSE ""
        edig  == IF esign = "" THEN etxt ELSE Tail(etxt)
        dot   == Find(mant, ".")
        ipart == IF dot = 0 THEN mant ELSE SubSeq(mant, 1, dot - 1)
        fpart == IF dot = 0 THEN <<>> ELSE SubSeq(mant, dot + 1, Len(mant))
        eval  == IF esign = "-" THEN 0 - DigitsVal(edig) ELSE DigitsVal(edig)
        good  == /\ AllDigits(ipart) /\ AllDigits(fpart)
                 /\ Len(ipart) + Len(fpart) > 0
                 /\ (e # 0 => (edig # <<>> /\ AllDigits(edig)))
    IN  IF good
        THEN [ok |-> TRUE,
              val |-> Dec(sign, DigitsVal(ipart \o fpart), eval - Len(fpart))]
        ELSE [ok |-> FALSE, val |-> DecZero]

DecimalOfText(text) ==
    LET s    == LowerSeq(Strip(text))
        sgn  == IF s # <<>> /\ s[1] = "-" THEN 1 ELSE 0
        body == IF s # <<>> /\ s[1] \in {"+", "-"} THEN Tail(s) ELSE s
    IN  IF body \in {<<"i", "n", "f">>, <<"i", "n", "f", "i", "n", "i", "t", "y">>}
        THEN [ok |-> TRUE, val |-> Special("Inf", sgn)]
        ELSE IF body = <<"n", "a", "n">>
        THEN [ok |-> TRUE, val |-> Special("NaN", sgn)]
        ELSE IF body = <<"s", "n", "a", "n">>
        THEN [ok |-> TRUE, val |-> Special("sNaN", sgn)]
        ELSE ParseFinite(sgn, body)

\* str(Decimal): scientific notation as Decimal.__str__ writes it.
StrOfDecimal(d) ==
    LET sign == IF d.sign = 1 THEN <<"-">> ELSE <<>>
        int  == Digits(d.coef)
        left == d.exp + Len(int)
        dotplace == IF d.exp <= 0 /\ left > -6 THEN left ELSE 1
        intpart  == IF dotplace <= 0 THEN <<"0">>
                    ELSE IF dotplace >= Len(int)
                         THEN int \o Zeros(dotplace - Len(int))
                         ELSE SubSeq(int, 1, dotplace)
        fracpart == IF dotplace <= 0 THEN <<".">> \o Zeros(0 - dotplace) \o int
                    ELSE IF dotplace >= Len(int) THEN <<>>
                         ELSE <<".">> \o SubSeq(int, dotplace + 1, Len(int))
        ex   == left - dotplace
        exp  == IF ex = 0 THEN <<>>
                ELSE <<"E">> \o (IF ex < 0 THEN <<"-">> \o Digits(0 - ex)
                                 ELSE <<"+">> \o Digits(ex))
    IN  CASE d.sp = "Inf"  -> sign \o <<"I", "n", "f", "i", "n", "i", "t", "y">>
          [] d.sp = "NaN"  -> sign \o <<"N", "a", "N">>
          [] d.sp = "sNaN" -> sign \o <<"s", "N", "a", "N">>
          [] OTHER         -> sign \o intpart \o fracpart \o exp

\* InvalidOperation raised by an arithmetic step, carried as a value.
Raised == Special("raise", 0)

Signed(d) == IF d.sign = 1 THEN 0 - d.coef ELSE d.coef

Min(a, b) == IF a <= b THEN a ELSE b

Abs(n) == IF n < 0 THEN 0 - n ELSE n

\* The coefficient of a finite d at exponent e <= d.exp.
Scaled(d, e) == Signed(d) * Pow10(d.exp - e)

\* Decimal.__add__ under the default context. The 28-digit precision of the
\* context is not reached by the coefficients of this model.
DecAdd(a, b) ==
    IF a.sp = "raise" \/ b.sp = "raise" \/ a.sp = "sNaN" \/ b.sp = "sNaN" THEN Raised
    ELSE IF a.sp = "NaN" THEN a
    ELSE IF b.sp = "NaN" THEN b
    ELSE IF a.sp = "Inf" /\ b.sp = "Inf"
         THEN (IF a.sign = b.sign THEN a ELSE Raised)
    ELSE IF a.sp = "Inf" THEN a
    ELSE IF b.sp = "Inf" THEN b
    ELSE LET e == Min(a.exp, b.exp)
             v == Scaled(a, e) + Scaled(b, e)
         IN  IF v # 0 THEN Dec(IF v < 0 THEN 1 ELSE 0, Abs(v), e)
             ELSE IF a.coef = 0 /\ b.coef = 0 THEN Dec(Min(a.sign, b.sign), 0, e)
             ELSE Dec(0, 0, e)

DecNeg(a) == [a EXCEPT !.sign = 1 - a.sign]

\* Decimal.__sub__: NaN operands are answered before the negation.
DecSub(a, b) ==
    IF a.sp \in {"NaN", "sNaN", "raise"} \/ b.sp \in {"NaN", "sNaN", "raise"}
    THEN DecAdd(a, b)
    ELSE DecAdd(a, DecNeg(b))

\* Decimal.__eq__ : numeric, never raising; a NaN equals nothing.
DecEq(a, b) ==
    IF a.sp \in {"NaN", "sNaN", "raise"} \/ b.sp \in {"NaN", "sNaN", "raise"} THEN FALSE
    ELSE IF a.sp = "Inf" \/ b.sp = "Inf" THEN a.sp = b.sp /\ a.sign = b.sign
    ELSE LET e == Min(a.exp, b.exp) IN Scaled(a, e) = Scaled(b, e)

\* Decimal.__gt__ : "yes", "no", or "raise" (InvalidOperation on a NaN).
DecGt(a, b) ==
    IF a.sp \in {"NaN", "sNaN", "raise"} \/ b.sp \in {"NaN", "sNaN", "raise"} THEN "raise"
    ELSE IF a.sp = "Inf" /\ b.sp = "Inf"
         THEN (IF a.sign = 0 /\ b.sign = 1 THEN "yes" ELSE "no")
    ELSE IF a.sp = "Inf" THEN (IF a.sign = 0 THEN "yes" ELSE "no")
    ELSE IF b.sp = "Inf" THEN (IF b.sign = 1 THEN "yes" ELSE "no")
    ELSE LET e == Min(a.exp, b.exp)
         IN  IF Scaled(a, e) > Scaled(b, e) THEN "yes" ELSE "no"

IsFinite(d) == d.sp = "fin"

\* to_decimal(text): ok = FALSE is the ValueError "Amount must be a number."
to_decimal(text) == DecimalOfText(text)

---------------------------------------------------------------------------
(* Transaction and Goal, and their JSON records.                           *)

Transaction(date, desc, amount, kind, category) ==
    [date |-> date, description |-> desc, amount |-> amount,
     kind |-> kind, category |-> category]

Goal(name, target) == [name |-> name, target |-> target]

\* Decimal.normalize(): trailing zeros of the coefficient are dropped.
RECURSIVE Normalize(_)
Normalize(d) ==
    IF d.sp # "fin" THEN d
    ELSE IF d.coef = 0 THEN Dec(d.sign, 0, 0)
    ELSE IF d.coef % 10 = 0 THEN Normalize(Dec(d.sign, d.coef \div 10, d.exp + 1))
    ELSE d

\* A to_json that writes str(self.amount.normalize()).
Transaction_to_json_normalized(t) ==
    [date |-> t.date, description |-> t.description,
     amount |-> StrOfDecimal(Normalize(t.amount)), kind |-> t.kind,
     category |-> t.category]

Transaction_to_json(t) ==
    [date |-> t.date, description |-> t.description,
     amount |-> StrOfDecimal(t.amount), kind |-> t.kind, category |-> t.category]

\* err is "none", "KeyError" (a subscripted key is absent) or
\* "InvalidOperation" (the amount string is no decimal).
Transaction_from_json(d) ==
    IF ~({"date", "description", "amount", "kind"} \subseteq DOMAIN d)
    THEN [err |-> "KeyError", val |-> Transaction(<<>>, "", DecZero, "", "")]
    ELSE LET a == DecimalOfText(d.amount)
             c == IF "category" \in DOMAIN d THEN d.category ELSE "Other"
         IN  [err |-> IF a.ok THEN "none" ELSE "InvalidOperation",
              val |-> Transaction(d.date, d.description, a.val, d.kind, c)]

Goal_to_json(g) == [name |-> g.name, target |-> StrOfDecimal(g.target)]

Goal_from_json(d) ==
    IF ~({"name", "target"} \subseteq DOMAIN d)
    THEN [err |-> "KeyError", val |-> Goal("", DecZero)]
    ELSE LET a == DecimalOfText(d.target)
         IN  [err |-> IF a.ok THEN "none" ELSE "InvalidOperation",
              val |-> Goal(d.name, a.val)]

---------------------------------------------------------------------------
(* The file: absent, text that is no JSON, or a JSON value.                *)

Absent == [kind |-> "absent"]

Corrupt == [kind |-> "corrupt"]

JsonFile(data) == [kind |-> "json", data |-> data]

JList(items) == [type |-> "list", items |-> items]

JObject(obj) == [type |-> "object", obj |-> obj]

\* DataManager.save: the whole ledger, as one object.
SaveOf(txns, gs) ==
    JsonFile(JObject([transactions |-> [i \in 1..Len(txns) |-> Transaction_to_json(txns[i])],
                      goals |-> [i \in 1..Len(gs) |-> Goal_to_json(gs[i])]]))

\* What load() returns with: outcome is "ok" or the exception that leaves
\* load(); transactions and goals are the fields as load() left them.
Loaded(outcome, txns, gs) == [outcome |-> outcome, transactions |-> txns, goals |-> gs]

\* A load() whose except clause lets the JSONDecodeError through.
OnJSONDecodeError_reraised(txns, gs) == Loaded("JSONDecodeError", txns, gs)

\* Lines 131-133: the JSONDecodeError is caught, a warning is shown, load() returns.
OnJSONDecodeError(txns, gs) == Loaded("ok", txns, gs)

\* A load() without the compatibility branch.
LegacyShape_kept(data) == data

\* Lines 136-137: a bare list is taken as the transactions of an object with no goals.
LegacyShape(data) ==
    IF data.type = "list"
    THEN JObject([transactions |-> data.items, goals |-> <<>>])
    ELSE data

\* Lines 139-140: the two comprehensions, transactions first. data.get on a
\* value that is no dict is an AttributeError.
Decode(data, txns, gs) ==
    IF data.type # "object" THEN Loaded("AttributeError", txns, gs)
    ELSE
    LET jt == IF "transactions" \in DOMAIN data.obj
              THEN data.obj.transactions ELSE <<>>
        jg == IF "goals" \in DOMAIN data.obj THEN data.obj.goals ELSE <<>>
        ts == [i \in 1..Len(jt) |-> Transaction_from_json(jt[i])]
        ggs == [i \in 1..Len(jg) |-> Goal_from_json(jg[i])]
        tbad == {i \in 1..Len(jt) : ts[i].err # "none"}
        gbad == {i \in 1..Len(jg) : ggs[i].err # "none"}
        first(S) == CHOOSE i \in S : \A j \in S : i <= j
        newT == [i \in 1..Len(jt) |-> ts[i].val]
        newG == [i \in 1..Len(jg) |-> ggs[i].val]
    IN  IF tbad # {} THEN Loaded(ts[first(tbad)].err, txns, gs)
        ELSE IF gbad # {} THEN Loaded(ggs[first(gbad)].err, newT, gs)
        ELSE Loaded("ok", newT, newG)

\* DataManager.load on a manager whose fields are txns and gs.
LoadOf(f, txns, gs) ==
    IF f.kind = "absent" THEN Loaded("ok", txns, gs)
    ELSE IF f.kind = "corrupt" THEN OnJSONDecodeError(txns, gs)
    ELSE Decode(LegacyShape(f.data), txns, gs)

---------------------------------------------------------------------------
(* Totals and balances.                                                    *)

RECURSIVE SumKind(_, _)
SumKind(txns, kind) ==
    IF txns = <<>> THEN DecZero
    ELSE LET n == Len(txns)
             rest == SumKind(SubSeq(txns, 1, n - 1), kind)
         IN  IF txns[n].kind = kind THEN DecAdd(rest, txns[n].amount) ELSE rest

income_total == SumKind(transactions, "Income")

expense_total == SumKind(transactions, "Expense")

balance == DecSub(income_total, expense_total)

\* max(Decimal(0), balance): the second argument wins when it compares greater.
savings_total ==
    LET g == DecGt(balance, DecZero)
    IN  IF g = "raise" THEN Raised ELSE IF g = "yes" THEN balance ELSE DecZero

\* category_totals: err is "none", or "KeyError" when an Expense carries a
\* category that is no key of the dict built from CATEGORIES.
RECURSIVE CategoryFold(_)
CategoryFold(txns) ==
    IF txns = <<>>
    THEN [err |-> "none", totals |-> [c \in CategorySet |-> DecZero]]
    ELSE LET n == Len(txns)
             t == txns[n]
             rest == CategoryFold(SubSeq(txns, 1, n - 1))
         IN  IF rest.err # "none" \/ t.kind # "Expense" THEN rest
             ELSE IF t.category \notin CategorySet
             THEN [rest EXCEPT !.err = "KeyError"]
             ELSE IF DecAdd(rest.totals[t.category], t.amount).sp = "raise"
             THEN [rest EXCEPT !.err = "InvalidOperation"]
             ELSE [rest EXCEPT !.totals[t.category] = DecAdd(@, t.amount)]

category_totals == CategoryFold(transactions)

\* sum(totals.values()), in the order of CATEGORIES.
RECURSIVE SumValues(_, _)
SumValues(totals, k) ==
    IF k = 0 THEN DecZero ELSE DecAdd(SumValues(totals, k - 1), totals[CATEGORIES[k]])

\* refresh_goals_table, line 488: the fraction pct of one goal. The quotient is
\* kept as the pair num/den (den > 0) of coefficients at a common exponent;
\* kind is "ratio", "one", "-inf" (float('-inf')) or "raise".
goal_progress(bal, g) ==
    LET pos == DecGt(g.target, DecZero)
        One == [kind |-> "one", num |-> 1, den |-> 1]
    IN  IF pos = "raise" \/ bal.sp \in {"raise", "sNaN"}
        THEN [kind |-> "raise", num |-> 0, den |-> 1]
        ELSE IF pos = "no" THEN One
        ELSE IF bal.sp = "NaN" THEN One
        ELSE IF g.target.sp = "Inf"
             THEN (IF bal.sp = "Inf" THEN [kind |-> "raise", num |-> 0, den |-> 1]
                   ELSE [kind |-> "ratio", num |-> 0, den |-> 1])
        ELSE IF bal.sp = "Inf"
             THEN (IF bal.sign = 0 THEN One ELSE [kind |-> "-inf", num |-> -1, den |-> 0])
        ELSE LET e == Min(bal.exp, g.target.exp)
                 n == Scaled(bal, e)
                 d == Scaled(g.target, e)
             IN  IF n >= d THEN One ELSE [kind |-> "ratio", num |-> n, den |-> d]

---------------------------------------------------------------------------
(* datetime.strptime(text, "%m/%d/%Y %H:%M"): TRUE when it returns, FALSE   *)
(* when it raises ValueError.                                              *)

After(s, p) == SubSeq(s, p + 1, Len(s))

RECURSIVE LStrip(_)
LStrip(s) == IF s # <<>> /\ s[1] = " " THEN LStrip(Tail(s)) ELSE s

Field(s, lo, hi) ==
    Len(s) \in 1..2 /\ AllDigits(s) /\ DigitsVal(s) >= lo /\ DigitsVal(s) <= hi

IsLeap(y) == y % 4 = 0 /\ (y % 100 # 0 \/ y % 400 = 0)

DaysIn(m, y) ==
    IF m = 2 THEN (IF IsLeap(y) THEN 29 ELSE 28)
    ELSE IF m \in {4, 6, 9, 11} THEN 30 ELSE 31

strptime_ok(text) ==
    LET p1 == Find(text, "/")
        mm == SubSeq(text, 1, p1 - 1)
        r1 == After(text, p1)
        p2 == Find(r1, "/")
        dd == SubSeq(r1, 1, p2 - 1)
        r2 == After(r1, p2)
        yy == SubSeq(r2, 1, 4)
        r3 == After(r2, 4)
        r4 == LStrip(r3)
        p3 == Find(r4, ":")
        hh == SubSeq(r4, 1, p3 - 1)
        mi == After(r4, p3)
    IN  /\ p1 > 0 /\ p2 > 0 /\ Len(r2) >= 4 /\ p3 > 0
        /\ Field(mm, 1, 12) /\ Field(dd, 1, 31)
        /\ AllDigits(yy) /\ DigitsVal(yy) >= 1
        /\ Len(r4) < Len(r3)
        /\ Field(hh, 0, 23) /\ Field(mi, 0, 59)
        /\ DigitsVal(dd) <= DaysIn(DigitsVal(mm), DigitsVal(yy))

---------------------------------------------------------------------------
(* The values the calls of this model are made with.                       *)

DateGood == <<"0", "1", "/", "0", "2", "/", "2", "0", "2", "4", " ",
              "1", "0", ":", "3", "0">>

DateBad == <<"2", "0", "2", "4", "-", "0", "1", "-", "0", "2">>

Txt200_50 == <<"2", "0", "0", ".", "5", "0">>

Txt1000_00 == <<"1", "0", "0", "0", ".", "0", "0">>

TxtAbc == <<"a", "b", "c">>

TxtNaN == <<"N", "a", "N">>

TxtZero == <<"0">>

TxtMinus5 == <<"-", "5">>

D(text) == DecimalOfText(text).val

\* Transactions handed to the DataManager by a caller that validated them.
TxnValues ==
    { Transaction(DateGood, "pay", D(Txt1000_00), "Income", "Other"),
      Transaction(DateGood, "lunch", D(Txt200_50), "Expense", "Food"),
      Transaction(DateGood, "rent", D(Txt1000_00), "Expense", "Rent") }

GoalValues ==
    { Goal("car", D(Txt1000_00)), Goal("none", D(TxtZero)), Goal("debt", D(TxtMinus5)) }

JTxn(date, desc, amount, kind, category) ==
    [date |-> date, description |-> desc, amount |-> amount,
     kind |-> kind, category |-> category]

JTxnNoCategory(date, desc, amount, kind) ==
    [date |-> date, description |-> desc, amount |-> amount, kind |-> kind]

JGoal(name, target) == [name |-> name, target |-> target]

FileLegacy ==
    JsonFile(JList(<<JTxn(DateGood, "pay", Txt1000_00, "Income", "Other"),
                     JTxnNoCategory(DateGood, "lunch", Txt200_50, "Expense")>>))

FileObject ==
    JsonFile(JObject([transactions |-> <<JTxn(DateGood, "lunch", Txt200_50, "Expense", "Food")>>,
                      goals |-> <<JGoal("car", Txt1000_00)>>]))

FileNoGoalsKey ==
    JsonFile(JObject([transactions |-> <<JTxn(DateGood, "pay", Txt1000_00, "Income", "Other")>>]))

FileUnknownCategory ==
    JsonFile(JObject([transactions |-> <<JTxn(DateGood, "gift", Txt200_50, "Expense", "Misc")>>,
                      goals |-> <<>>]))

FileBadAmount ==
    JsonFile(JObject([transactions |-> <<JTxn(DateGood, "pay", TxtAbc, "Income", "Other")>>,
                      goals |-> <<>>]))

FileBadTarget ==
    JsonFile(JObject([transactions |-> <<JTxn(DateGood, "pay", Txt1000_00, "Income", "Other")>>,
                      goals |-> <<JGoal("car", TxtAbc)>>]))

FileScalar == JsonFile([type |-> "scalar"])

InitFiles ==
    { Absent, Corrupt, FileLegacy, FileObject, FileNoGoalsKey,
      FileUnknownCategory, FileBadAmount, FileBadTarget, FileScalar }

NoFresh == [loaded |-> FALSE, outcome |-> "none", transactions |-> <<>>, goals |-> <<>>]

Call(op, index, outcome, removed) ==
    [op |-> op, index |-> index, outcome |-> outcome, removed |-> removed]

---------------------------------------------------------------------------
(* DataManager.                                                            *)

\* The position (from 1) a Python list of length n gives index, 0 when the
\* subscript or pop raises IndexError.
ListPos(n, index) ==
    IF index >= 0 /\ index < n THEN index + 1
    ELSE IF index < 0 /\ index >= 0 - n THEN n + index + 1
    ELSE 0

RemoveAt(s, p) == SubSeq(s, 1, p - 1) \o SubSeq(s, p + 1, Len(s))

\* save(): the file is rewritten from the fields as they will be.
save(txns, gs) ==
    /\ file' = SaveOf(txns, gs)
    /\ written' = TRUE

\* __init__: the fields are empty lists and load() has not run yet.
Init ==
    /\ transactions = <<>>
    /\ goals = <<>>
    /\ file \in InitFiles
    /\ phase = "new"
    /\ last = Call("init", 0, "ok", <<>>)
    /\ written = FALSE
    /\ fresh = NoFresh

\* load(), called by __init__. An exception leaves the constructor.
Load ==
    /\ phase = "new"
    /\ LET r == LoadOf(file, transactions, goals)
       IN  /\ transactions' = r.transactions
           /\ goals' = r.goals
           /\ phase' = IF r.outcome = "ok" THEN "ready" ELSE "crashed"
           /\ last' = Call("load", 0, r.outcome, <<>>)
    /\ UNCHANGED <<file, written, fresh>>

\* Each mutator below is the method of DataManager; the action that calls it
\* records the call and its outcome in last.
Outcome(n, index) == IF ListPos(n, index) = 0 THEN "IndexError" ELSE "ok"

add_transaction(t) ==
    /\ phase = "ready"
    /\ Len(transactions) < MaxTxns
    /\ transactions' = Append(transactions, t)
    /\ save(transactions', goals)
    /\ UNCHANGED <<goals, phase, fresh>>

update_transaction(index, t) ==
    /\ phase = "ready"
    /\ LET p == ListPos(Len(transactions), index)
       IN  IF p = 0
           THEN UNCHANGED <<transactions, file, written>>
           ELSE /\ transactions' = [transactions EXCEPT ![p] = t]
                /\ save(transactions', goals)
    /\ UNCHANGED <<goals, phase, fresh>>

\* A delete that pops the end of the list whatever the index.
delete_transaction_pop_last(index) ==
    /\ phase = "ready"
    /\ LET p == ListPos(Len(transactions), index)
       IN  IF p = 0
           THEN UNCHANGED <<transactions, file, written>>
           ELSE /\ transactions' = RemoveAt(transactions, Len(transactions))
                /\ save(transactions', goals)
    /\ UNCHANGED <<goals, phase, fresh>>

delete_transaction(index) ==
    /\ phase = "ready"
    /\ LET p == ListPos(Len(transactions), index)
       IN  IF p = 0
           THEN UNCHANGED <<transactions, file, written>>
           ELSE /\ transactions' = RemoveAt(transactions, p)
                /\ save(transactions', goals)
    /\ UNCHANGED <<goals, phase, fresh>>

add_goal(g) ==
    /\ phase = "ready"
    /\ Len(goals) < MaxGoals
    /\ goals' = Append(goals, g)
    /\ save(transactions, goals')
    /\ UNCHANGED <<transactions, phase, fresh>>

update_goal(index, g) ==
    /\ phase = "ready"
    /\ LET p == ListPos(Len(goals), index)
       IN  IF p = 0
           THEN UNCHANGED <<goals, file, written>>
           ELSE /\ goals' = [goals EXCEPT ![p] = g]
                /\ save(transactions, goals')
    /\ UNCHANGED <<transactions, phase, fresh>>

\* A delete_goal that forgets save().
delete_goal_unsaved(index) ==
    /\ phase = "ready"
    /\ LET p == ListPos(Len(goals), index)
       IN  IF p = 0
           THEN UNCHANGED goals
           ELSE goals' = RemoveAt(goals, p)
    /\ UNCHANGED <<transactions, file, written, phase, fresh>>

delete_goal(index) ==
    /\ phase = "ready"
    /\ LET p == ListPos(Len(goals), index)
       IN  IF p = 0
           THEN UNCHANGED <<goals, file, written>>
           ELSE /\ goals' = RemoveAt(goals, p)
                /\ save(transactions, goals')
    /\ UNCHANGED <<transactions, phase, fresh>>

Removed(s, index) ==
    IF ListPos(Len(s), index) = 0 THEN <<>> ELSE <<s[ListPos(Len(s), index)]>>

TxnIndexes == (0 - (MaxTxns + 1)) .. (MaxTxns + 1)

GoalIndexes == (0 - (MaxGoals + 1)) .. (MaxGoals + 1)

AddTransaction ==
    \E t \in TxnValues :
        /\ add_transaction(t)
        /\ last' = Call("add_transaction", 0, "ok", <<>>)

UpdateTransaction ==
    \E i \in TxnIndexes, t \in TxnValues :
        /\ update_transaction(i, t)
        /\ last' = Call("update_transaction", i, Outcome(Len(transactions), i), <<>>)

DeleteTransaction ==
    \E i \in TxnIndexes :
        /\ delete_transaction(i)
        /\ last' = Call("delete_transaction", i, Outcome(Len(transactions), i),
                        Removed(transactions, i))

AddGoal ==
    \E g \in GoalValues :
        /\ add_goal(g)
        /\ last' = Call("add_goal", 0, "ok", <<>>)

UpdateGoal ==
    \E i \in GoalIndexes, g \in GoalValues :
        /\ update_goal(i, g)
        /\ last' = Call("update_goal", i, Outcome(Len(goals), i), <<>>)

DeleteGoal ==
    \E i \in GoalIndexes :
        /\ delete_goal(i)
        /\ last' = Call("delete_goal", i, Outcome(Len(goals), i), Removed(goals, i))

Next ==
    \/ Load
    \/ AddTransaction
    \/ UpdateTransaction
    \/ DeleteTransaction
    \/ AddGoal
    \/ UpdateGoal
    \/ DeleteGoal

Spec == Init /\ [][Next]_vars

---------------------------------------------------------------------------
(* BudgetBuddy: the handlers of the forms. The tables are rebuilt after     *)
(* every mutation (refresh_all), so a selected row carries a position of    *)
(* the current list; the edit dialogs hold the grab while they are open.    *)

DateTexts == {DateGood, DateBad}

AmountTexts == {Txt200_50, TxtAbc, TxtNaN}

TargetTexts == {Txt1000_00, TxtAbc}

Kinds == {"Income", "Expense"}

\* The rows of the read-only category box that the model's user picks.
CategoryChoices == {CATEGORIES[1]}

Rows(s) == 0 .. (Len(s) - 1)

Unchanged == UNCHANGED <<transactions, goals, file, phase, written, fresh>>

\* BudgetBuddy.add_transaction: the "Add" button.
GuiAddTransaction ==
    \E date \in DateTexts, amt \in AmountTexts, kind \in Kinds, cat \in CategoryChoices :
        /\ phase = "ready"
        /\ IF ~to_decimal(amt).ok \/ ~strptime_ok(date)
           THEN /\ last' = Call("gui_add_transaction", 0, "error", <<>>)
                /\ Unchanged
           ELSE /\ add_transaction(Transaction(date, "lunch", to_decimal(amt).val, kind, cat))
                /\ last' = Call("gui_add_transaction", 0, "ok", <<>>)

\* BudgetBuddy.delete_transaction: a selected row, and the answer to askyesno.
GuiDeleteTransaction ==
    \E idx \in Rows(transactions), yes \in BOOLEAN :
        /\ phase = "ready"
        /\ IF yes
           THEN /\ delete_transaction(idx)
                /\ last' = Call("gui_delete_transaction", idx, "ok", <<>>)
           ELSE /\ last' = Call("gui_delete_transaction", idx, "cancelled", <<>>)
                /\ Unchanged

\* BudgetBuddy.edit_transaction.save_edit: the "Save" button of the dialog
\* opened on row idx.
GuiSaveEdit ==
    \E idx \in Rows(transactions), date \in DateTexts, amt \in AmountTexts,
       kind \in Kinds, cat \in CategoryChoices :
        /\ phase = "ready"
        /\ IF ~to_decimal(amt).ok
           THEN /\ last' = Call("gui_save_edit", idx, "error", <<>>)
                /\ Unchanged
           ELSE /\ update_transaction(idx, Transaction(date, "lunch", to_decimal(amt).val, kind, cat))
                /\ last' = Call("gui_save_edit", idx, "ok", <<>>)

\* BudgetBuddy.goal_dialog.save_goal with idx None: a new goal.
GuiAddGoal ==
    \E tgt \in TargetTexts :
        /\ phase = "ready"
        /\ IF ~to_decimal(tgt).ok
           THEN /\ last' = Call("gui_add_goal", 0, "error", <<>>)
                /\ Unchanged
           ELSE /\ add_goal(Goal("car", to_decimal(tgt).val))
                /\ last' = Call("gui_add_goal", 0, "ok", <<>>)

\* BudgetBuddy.goal_dialog.save_goal with the idx of the selected row.
GuiEditGoal ==
    \E idx \in Rows(goals), tgt \in TargetTexts :
        /\ phase = "ready"
        /\ IF ~to_decimal(tgt).ok
           THEN /\ last' = Call("gui_edit_goal", idx, "error", <<>>)
                /\ Unchanged
           ELSE /\ update_goal(idx, Goal("trip", to_decimal(tgt).val))
                /\ last' = Call("gui_edit_goal", idx, "ok", <<>>)

\* BudgetBuddy.delete_goal.
GuiDeleteGoal ==
    \E idx \in Rows(goals), yes \in BOOLEAN :
        /\ phase = "ready"
        /\ IF yes
           THEN /\ delete_goal(idx)
                /\ last' = Call("gui_delete_goal", idx, "ok", <<>>)
           ELSE /\ last' = Call("gui_delete_goal", idx, "cancelled", <<>>)
                /\ Unchanged

\* The program started on no file, or on a file it wrote itself.
InitGui == Init /\ file \in {Absent, FileObject}

NextGui ==
    \/ Load
    \/ GuiAddTransaction
    \/ GuiDeleteTransaction
    \/ GuiSaveEdit
    \/ GuiAddGoal
    \/ GuiEditGoal
    \/ GuiDeleteGoal

SpecGui == InitGui /\ [][NextGui]_vars

---------------------------------------------------------------------------
(* Save, then load into a second DataManager: the ledger is drawn from      *)
(* bounded sets and written by save(); fresh is the manager that reads it.  *)

CodecDecimals ==
    { Dec(0, 0, 0), Dec(1, 0, -2), Dec(0, 20050, -2), Dec(0, 1, 3), Dec(0, 5, -9),
      Dec(0, 1, -6), Dec(1, 123, -5), Dec(0, 12, 2),
      Special("NaN", 0), Special("Inf", 1), Special("sNaN", 0) }

CodecTxns ==
    { Transaction(DateGood, "lunch", d, "Expense", "Food") : d \in CodecDecimals }
    \cup { Transaction(DateBad, "", Dec(0, 7, 0), "Income", "Misc"),
           Transaction(<<>>, "x", Dec(1, 7, 1), "Transfer", "") }

CodecGoals == { Goal("car", d) : d \in CodecDecimals }

SeqsUpTo(S, n) == UNION { [1..k -> S] : k \in 0..n }

InitCodec ==
    /\ transactions \in SeqsUpTo(CodecTxns, MaxCodecLen)
    /\ goals \in SeqsUpTo(CodecGoals, MaxCodecLen)
    /\ file = Absent
    /\ phase = "ready"
    /\ last = Call("init", 0, "ok", <<>>)
    /\ written = FALSE
    /\ fresh = NoFresh

CodecSave ==
    /\ phase = "ready"
    /\ ~written
    /\ save(transactions, goals)
    /\ last' = Call("save", 0, "ok", <<>>)
    /\ UNCHANGED <<transactions, goals, phase, fresh>>

CodecLoad ==
    /\ written
    /\ ~fresh.loaded
    /\ LET r == LoadOf(file, <<>>, <<>>)
       IN  fresh' = [loaded |-> TRUE, outcome |-> r.outcome,
                     transactions |-> r.transactions, goals |-> r.goals]
    /\ last' = Call("load", 0, "ok", <<>>)
    /\ UNCHANGED <<transactions, goals, file, phase, written>>

NextCodec == CodecSave \/ CodecLoad

SpecCodec == InitCodec /\ [][NextCodec]_vars

---------------------------------------------------------------------------
(* Properties.                                                             *)

IndexedTxnOps == {"update_transaction", "delete_transaction"}

IndexedGoalOps == {"update_goal", "delete_goal"}

\* C1: every update or delete whose index is < 0 or >= the length of its
\* list ends in IndexError and leaves the transactions, the goals and the
\* file as they were.
C1_OutOfRangeFails ==
    [][ ( \/ /\ last'.op \in IndexedTxnOps
             /\ (last'.index < 0 \/ last'.index >= Len(transactions))
          \/ /\ last'.op \in IndexedGoalOps
             /\ (last'.index < 0 \/ last'.index >= Len(goals)) )
        => ( /\ last'.outcome = "IndexError"
             /\ UNCHANGED <<transactions, goals, file>> ) ]_vars

C3_CategoryTotals ==
    phase = "ready" =>
        /\ category_totals.err = "none"
        /\ DOMAIN category_totals.totals = CategorySet
        /\ DecEq(SumValues(category_totals.totals, Len(CATEGORIES)), expense_total)

\* C4: the progress fraction of every goal is 1 when its target is <= 0 and
\* lies in [0, 1] otherwise, also under a negative balance.
C4_ProgressInUnitInterval ==
    phase = "ready" =>
        \A i \in 1..Len(goals) :
            LET p == goal_progress(balance, goals[i])
            IN  /\ DecGt(goals[i].target, DecZero) = "no" => p.kind = "one"
                /\ p.kind \in {"one", "ratio"}
                /\ p.num >= 0
                /\ p.num <= p.den

C7_LoadedCategoriesFixed ==
    (last.op = "load" /\ last.outcome = "ok") =>
        \A i \in 1..Len(transactions) : transactions[i].category \in CategorySet

\* C8: after any sequence of actions of the forms, every stored transaction
\* has a finite amount and a date that strptime accepts.
C8_StoredTransactionsValid ==
    \A i \in 1..Len(transactions) :
        /\ IsFinite(transactions[i].amount)
        /\ strptime_ok(transactions[i].date)

\* s2 is s without its element at position p (from 1): the elements before p
\* stay, the elements after p move down by one.
DeletedAt(s, s2, p) ==
    /\ Len(s2) = Len(s) - 1
    /\ \A j \in 1..(p - 1) : s2[j] = s[j]
    /\ \A j \in (p + 1)..Len(s) : s2[j - 1] = s[j]

C10_LegacyArray ==
    [][ (phase = "new" /\ file.kind = "json" /\ file.data.type = "list")
        => LET items == file.data.items
           IN  /\ phase' = "ready"
               /\ goals' = <<>>
               /\ Len(transactions') = Len(items)
               /\ \A i \in 1..Len(items) :
                     /\ transactions'[i].date = items[i].date
                     /\ transactions'[i].description = items[i].description
                     /\ transactions'[i].kind = items[i].kind
                     /\ StrOfDecimal(transactions'[i].amount) = items[i].amount
                     /\ transactions'[i].category =
                            (IF "category" \in DOMAIN items[i]
                             THEN items[i].category ELSE "Other")
      ]_vars

C10_Witness ==
    /\ last.op = "load"
    /\ phase = "ready"
    /\ file = FileLegacy
    /\ Len(transactions) = 2
    /\ goals = <<>>

\* The least exponent among the amounts of the ledger (at most 0): every
\* amount is a whole number of units of 10^LedgerExp.
RECURSIVE LeastExp(_)
LeastExp(txns) ==
    IF txns = <<>> THEN 0
    ELSE Min(txns[Len(txns)].amount.exp, LeastExp(SubSeq(txns, 1, Len(txns) - 1)))

LedgerExp == LeastExp(transactions)

\* The sum, in units of 10^LedgerExp, of the amounts of the transactions of
\* the given kind that are in the ledger now.
RECURSIVE UnitsOfKind(_, _)
UnitsOfKind(txns, kind) ==
    IF txns = <<>> THEN 0
    ELSE UnitsOfKind(SubSeq(txns, 1, Len(txns) - 1), kind)
         + (IF txns[Len(txns)].kind = kind
            THEN Scaled(txns[Len(txns)].amount, LedgerExp) ELSE 0)

\* C11: in every state of a constructed manager, income_total() and
\* expense_total() are the sums of the Income and of the Expense amounts now
\* in the ledger (0 when there are none), balance() is their difference, and
\* savings_total() is balance() when that is >= 0 and 0 otherwise.
C11_BalanceAndSavings ==
    phase = "ready" =>
        LET inc == UnitsOfKind(transactions, "Income")
            exp == UnitsOfKind(transactions, "Expense")
        IN  /\ IsFinite(income_total) /\ IsFinite(expense_total)
            /\ IsFinite(balance) /\ IsFinite(savings_total)
            /\ Scaled(income_total, LedgerExp) = inc
            /\ Scaled(expense_total, LedgerExp) = exp
            /\ Scaled(balance, LedgerExp) = inc - exp
            /\ DecEq(balance, DecSub(income_total, expense_total))
            /\ Scaled(savings_total, LedgerExp) = (IF inc - exp >= 0 THEN inc - exp ELSE 0)

====
